---- MODULE Spec2Model ----
(***************************************************************************)
(* Negotiation-to-booking pipeline of the SkillnScale backend:             *)
(* service requests, chat rooms, messages, price acceptance, the booking   *)
(* life cycle, reviews and the profile read (app/api/endpoints/chat.py,    *)
(* bookings.py, requests.py, reviews.py, users.py), over the tables of     *)
(* app/db/db_models.py and the request-scoped session of                   *)
(* app/db/database.py.                                                     *)
(*                                                                         *)
(* Rows are never deleted, so a table is a sequence in insertion           *)
(* (created_at) order and a row's id is its position.                      *)
(***************************************************************************)
EXTENDS Integers, Sequences, FiniteSets, TLC

\* ---------------------------------------------------------------- bounds
MaxRequests == 1
MaxRooms == 2
MaxMessages == 4
MaxBookings == 2
MaxJobs == 3
MaxSlots == 4

\* ----------------------------------------------------------------- users
Customers == {"c1"}
Professionals == {"p1", "p2"}
Users == Customers \cup Professionals

\* callers of create_chat_room: the request's owner and a user who is not
RoomCreators == {"c1", "p2"}

\* two request handlers can be in flight at once
Procs == {1, 2}

\* Optional[float]: None, or a one-element tuple holding the value
None == <<>>
Some(x) == <<x>>
IsSome(o) == Len(o) = 1
Val(o) == o[1]

PriceValues == {0, 1, 2}
PriceInputs == {None} \cup {Some(p) : p \in PriceValues}

MessageType == {"text", "price_proposal", "system"}
BookingStatus == {"confirmed", "in_progress", "completed", "cancelled"}

\* what a client may put in a MessageCreate body
MessageCreate ==
    {[message_type |-> "price_proposal", proposed_price |-> p] : p \in PriceInputs}
    \cup {[message_type |-> t, proposed_price |-> None] : t \in MessageType \ {"price_proposal"}}

VARIABLES requests, rooms, messages, bookings, reviews, txn, resp,
          users, slots, fcm, notified

db == <<requests, rooms, messages, bookings, reviews>>
vars == <<requests, rooms, messages, bookings, reviews, txn, resp,
          users, slots, fcm, notified>>

\* ------------------------------------------------------------ row types
\* the columns later handlers read or write; a text column holds the set of
\* its lowercased words (set(text.lower().split())), the empty set for an
\* empty text; scheduled_at is FALSE for None, TRUE for a datetime
ServiceRequest(u, request_in, status, scheduled_at) ==
    [customer_id |-> u, category_id |-> request_in.category_id,
     title |-> request_in.title, description |-> request_in.description,
     status |-> status, scheduled_at |-> scheduled_at]

\* role is "customer" or "pro"; service_category is NoCategory for NULL;
\* bio is the set of the words of the text, empty for NULL
User(role, service_category, bio, is_active) ==
    [role |-> role, service_category |-> service_category, bio |-> bio,
     is_active |-> is_active]

\* is_booked defaults to False and no handler sets it
Availability(pro) == [professional_id |-> pro, is_booked |-> FALSE]

ChatRoom(req, u, pro) ==
    [request_id |-> req, customer_id |-> u, professional_id |-> pro, status |-> "active"]

Message(r, u, t, p) ==
    [chat_room_id |-> r, sender_id |-> u, message_type |-> t, proposed_price |-> p]

Booking(req, c, pro, price, scheduled_at) ==
    [request_id |-> req, customer_id |-> c, professional_id |-> pro,
     agreed_price |-> price, status |-> "confirmed",
     scheduled_at |-> scheduled_at, completed_at |-> FALSE]

Review(b, reviewer, reviewee, rating) ==
    [booking_id |-> b, reviewer_id |-> reviewer, reviewee_id |-> reviewee, rating |-> rating]

\* ------------------------------------------------- texts and accounts
Categories == {"plumbing", "electrician"}
NoCategory == "null"

\* texts a client sends as the description of a request: none, one with two
\* service keywords, one with three, one with no keyword
Descriptions ==
    {{}, {"fix", "the", "leak"}, {"fix", "leak", "pipe"}, {"my", "old", "geyser"}}

\* the bios a professional signs up with: none, keywords, other words
Bios == {{}, {"leak", "pipe", "fix"}, {"i", "fix", "my", "old", "geyser"}}

\* ServiceRequestCreate bodies: a plumbing job under every description, and
\* an electrician's job
ServiceRequestCreate ==
    {[category_id |-> "plumbing", title |-> {"leak"}, description |-> d] : d \in Descriptions}
    \cup {[category_id |-> "electrician", title |-> {"fan"}, description |-> {}]}

LeakRequest ==
    [category_id |-> "plumbing", title |-> {"leak"}, description |-> {"fix", "the", "leak"}]

\* the request create_booking_legacy builds from service_id "plumbing" and no
\* notes: title service_id.capitalize(), description "Service requested"
LegacyRequest ==
    [category_id |-> "plumbing", title |-> {"plumbing"},
     description |-> {"service", "requested"}]

\* accounts after signup and OTP verification
VerifiedUsers ==
    [u \in Users |->
        IF u \in Customers THEN User("customer", NoCategory, {}, TRUE)
        ELSE User("pro", "plumbing", {"leak", "pipe", "fix"}, TRUE)]

\* the last answer: the operation, its HTTP status and the id of the row
\* returned (0: none)
Response(op, code, id) == [op |-> op, code |-> code, id |-> id]

\* a request handler's session (database.py get_db): idle, or holding flushed
\* but uncommitted writes. raced records that another accept_price on the same
\* room was in flight at the same time; the session of such a handler keeps the
\* status it answered (pc = "done") until the slot serves another request.
IdleTxn ==
    [pc |-> "idle", op |-> "none", user |-> "c1", room |-> 0, request |-> 0,
     pro |-> "p1", price |-> None, seen |-> "none", code |-> 0, raced |-> FALSE]

DoneTxn(op, r, code, raced) ==
    IF raced
    THEN [IdleTxn EXCEPT !.pc = "done", !.op = op, !.room = r, !.code = code, !.raced = TRUE]
    ELSE IdleTxn

Init ==
    /\ requests = <<>>
    /\ rooms = <<>>
    /\ messages = <<>>
    /\ bookings = <<>>
    /\ reviews = <<>>
    /\ txn = [p \in Procs |-> IdleTxn]
    /\ resp = Response("none", 0, 0)
    /\ users = VerifiedUsers
    /\ slots = <<>>
    /\ fcm = "up"
    /\ notified = "none"

\* ---------------------------------------------------- requests.py: create
CreateServiceRequest(u, request_in) ==
    /\ Len(requests) < MaxRequests
    /\ requests' = Append(requests, ServiceRequest(u, request_in, "open", FALSE))
    /\ resp' = Response("create_service_request", 200, Len(requests) + 1)
    /\ UNCHANGED <<rooms, messages, bookings, reviews, txn, users, slots, fcm, notified>>

\* --------------------------------------------------------- table queries
\* handlers holding writes that are flushed and not yet committed
InFlight == {q \in Procs : txn[q].pc = "flushed"}

RequestIds == 1..MaxRequests
RoomIds == 1..MaxRooms
BookingIds == 1..MaxBookings

MaxOf(S) == CHOOSE x \in S : \A y \in S : y <= x

\* bug: the professional is left out of the lookup
ExistingRoomsAnyPro(req, u, pro) ==
    {i \in DOMAIN rooms : rooms[i].request_id = req /\ rooms[i].customer_id = u}

\* select(ChatRoom).where(request_id, customer_id, professional_id)
ExistingRooms(req, u, pro) ==
    {i \in DOMAIN rooms : /\ rooms[i].request_id = req
                          /\ rooms[i].customer_id = u
                          /\ rooms[i].professional_id = pro}

\* bug: no participant check
AnyUser(room) == Users

\* [room.customer_id, room.professional_id], [booking.customer_id, ...]
Participants(room) == {room.customer_id, room.professional_id}

\* select(Message).where(chat_room_id, message_type == "price_proposal")
Proposals(r) ==
    {i \in DOMAIN messages : /\ messages[i].chat_room_id = r
                             /\ messages[i].message_type = "price_proposal"}

\* bug: ascending order, the earliest proposal
FirstProposal(r) == messages[CHOOSE i \in Proposals(r) : \A j \in Proposals(r) : i <= j]

\* ... .order_by(Message.created_at.desc()).limit(1)
LastProposal(r) == messages[MaxOf(Proposals(r))]

\* ------------------------------------------------ chat.py: create_chat_room
\* the reads and early returns; new = TRUE when a room is to be inserted
create_chat_room_read(u, req, pro) ==
    IF req \notin DOMAIN requests
    THEN [code |-> 404, id |-> 0, new |-> FALSE]
    ELSE LET existing == ExistingRooms(req, u, pro)
         IN  IF Cardinality(existing) > 1
             THEN [code |-> 500, id |-> 0, new |-> FALSE]  \* MultipleResultsFound
             ELSE IF existing # {}
             THEN [code |-> 200, id |-> CHOOSE i \in existing : TRUE, new |-> FALSE]
             ELSE [code |-> 200, id |-> 0, new |-> TRUE]

\* the inserts: the room, then its system message
create_chat_room_write(u, req, pro) ==
    /\ rooms' = Append(rooms, ChatRoom(req, u, pro))
    /\ messages' = Append(messages, Message(Len(rooms) + 1, u, "system", None))
    /\ UNCHANGED <<requests, bookings, reviews>>

CreateChatRoom(u, req, pro) ==
    LET rd == create_chat_room_read(u, req, pro)
    IN  /\ IF rd.new
           THEN /\ Len(rooms) < MaxRooms
                /\ Len(messages) + Cardinality(InFlight) < MaxMessages
                /\ create_chat_room_write(u, req, pro)
                /\ resp' = Response("create_chat_room", 200, Len(rooms) + 1)
           ELSE /\ UNCHANGED db
                /\ resp' = Response("create_chat_room", rd.code, rd.id)
        /\ UNCHANGED <<txn, users, slots, fcm, notified>>

\* ------------------------------------------------ notification_service.py
\* what a push to the recipient meets: the recipient has no device token;
\* firebase is not initialised; delivery works; messaging.send_multicast raises
FcmStates == {"no_tokens", "mock", "up", "down"}

\* bug: no try/except around the delivery, the exception reaches the caller
send_multicast_unguarded(state) ==
    IF state = "mock" THEN "mocked"
    ELSE IF state = "up" THEN "sent"
    ELSE "raised"

\* NotificationService.send_multicast: how the call ends
send_multicast(state) ==
    IF state = "mock" THEN "mocked"         \* not self.initialized: return
    ELSE IF state = "up" THEN "sent"
    ELSE "logged"                           \* except Exception: logger.error

\* how the call ends for the handler: an exception ("raised") would reach
\* get_db, which rolls the session back
send_notification_to_user(state) ==
    IF state = "no_tokens" THEN "skipped" ELSE send_multicast(state)

\* ---------------------------------------------------- chat.py: send_message
\* bug: no check of room.status
send_message_check_open(u, r, m) ==
    IF r \notin DOMAIN rooms THEN 404
    ELSE IF u \notin Participants(rooms[r]) THEN 403
    ELSE IF m.message_type = "price_proposal" /\ m.proposed_price = None THEN 400
    ELSE 200

send_message_check(u, r, m) ==
    IF r \notin DOMAIN rooms THEN 404
    ELSE IF u \notin Participants(rooms[r]) THEN 403
    ELSE IF rooms[r].status # "active" THEN 400
    ELSE IF m.message_type = "price_proposal" /\ m.proposed_price = None THEN 400
    ELSE 200

SendMessage(u, r, m) ==
    LET code == send_message_check(u, r, m)
        push == send_notification_to_user(fcm)
    IN  /\ IF code # 200
           THEN /\ UNCHANGED <<messages, notified>>
                /\ resp' = Response("send_message", code, 0)
           ELSE /\ Len(messages) + Cardinality(InFlight) < MaxMessages
                /\ notified' = push
                /\ IF push = "raised"
                   THEN /\ UNCHANGED messages      \* session.rollback()
                        /\ resp' = Response("send_message", 500, 0)
                   ELSE /\ messages' = Append(messages,
                               Message(r, u, m.message_type, m.proposed_price))
                        /\ resp' = Response("send_message", 200, 0)
        /\ UNCHANGED <<requests, rooms, bookings, reviews, txn, users, slots, fcm>>

\* ---------------------------------------------------- chat.py: accept_price
\* bug: the proposer may accept its own proposal
accept_price_read_own(u, r) ==
    IF r \notin DOMAIN rooms THEN [code |-> 404, price |-> None]
    ELSE IF u \notin Participants(rooms[r]) THEN [code |-> 403, price |-> None]
    ELSE IF Proposals(r) = {} THEN [code |-> 400, price |-> None]
    ELSE [code |-> 200, price |-> LastProposal(r).proposed_price]

\* the reads and early returns; price is last_proposal.proposed_price
accept_price_read(u, r) ==
    IF r \notin DOMAIN rooms THEN [code |-> 404, price |-> None]
    ELSE IF u \notin Participants(rooms[r]) THEN [code |-> 403, price |-> None]
    ELSE IF Proposals(r) = {} THEN [code |-> 400, price |-> None]
    ELSE IF LastProposal(r).sender_id = u THEN [code |-> 400, price |-> None]
    ELSE [code |-> 200, price |-> LastProposal(r).proposed_price]

\* bug: the message and the room are committed, the request and the booking not
accept_price_write_partial(u, r, price) ==
    /\ messages' = Append(messages, Message(r, u, "price_accept", price))
    /\ rooms' = [rooms EXCEPT ![r].status = "closed"]
    /\ UNCHANGED <<requests, bookings, reviews>>

\* the writes of one acceptance by u of price in room r
accept_price_write(u, r, price) ==
    /\ messages' = Append(messages, Message(r, u, "price_accept", price))
    /\ rooms' = [rooms EXCEPT ![r].status = "closed"]
    /\ requests' = [requests EXCEPT ![rooms[r].request_id].status = "booked"]
    /\ bookings' = Append(bookings,
           Booking(rooms[r].request_id, rooms[r].customer_id,
                   rooms[r].professional_id, price,
                   requests[rooms[r].request_id].scheduled_at))
    /\ UNCHANGED reviews

AcceptPrice(u, r) ==
    LET rd == accept_price_read(u, r)
        push == send_notification_to_user(fcm)
    IN  /\ IF rd.code # 200
           THEN /\ UNCHANGED <<db, notified>>
                /\ resp' = Response("accept_price", rd.code, 0)
           ELSE /\ Len(bookings) < MaxBookings
                /\ Len(messages) < MaxMessages
                /\ notified' = push
                /\ IF push = "raised"
                   THEN /\ UNCHANGED db            \* session.rollback()
                        /\ resp' = Response("accept_price", 500, 0)
                   ELSE /\ accept_price_write(u, r, rd.price)
                        /\ resp' = Response("accept_price", 200, Len(bookings) + 1)
        /\ UNCHANGED <<txn, users, slots, fcm>>

\* ------------------------------------------ bookings.py: update_booking_status
update_booking_status_check(u, b) ==
    IF b \notin DOMAIN bookings THEN 404
    ELSE IF u \notin Participants(bookings[b]) THEN 403
    ELSE 200

\* bug: completed_at is cleared when the new status is not completed
update_booking_status_write_clear(b, s) ==
    [bookings EXCEPT ![b].status = s, ![b].completed_at = (s = "completed")]

update_booking_status_write(b, s) ==
    [bookings EXCEPT ![b].status = s,
                     ![b].completed_at = IF s = "completed" THEN TRUE ELSE @]

UpdateBookingStatus(u, b, s) ==
    LET code == update_booking_status_check(u, b)
    IN  /\ bookings' = IF code = 200 THEN update_booking_status_write(b, s) ELSE bookings
        /\ resp' = Response("update_booking_status", code, IF code = 200 THEN b ELSE 0)
        /\ UNCHANGED <<requests, rooms, messages, reviews, txn, users, slots, fcm, notified>>

\* ------------------------------------------------ requests.py: update_request
\* ServiceRequestUpdate.status is Optional[str]: unset, or any string;
\* description is Optional[str]
RequestStatus == {"open", "matched", "booked", "completed", "cancelled"}
ServiceRequestUpdate ==
    {[status |-> st, description |-> d] :
        st \in {None} \cup {Some(s) : s \in RequestStatus},
        d \in {None} \cup {Some(w) : w \in Descriptions}}

update_request_check(u, req) ==
    IF req \notin DOMAIN requests THEN 404
    ELSE IF requests[req].customer_id # u THEN 403
    ELSE 200

\* setattr for every field that was set (exclude_unset)
update_request_write(req, update) ==
    [requests EXCEPT
        ![req].status = IF IsSome(update.status) THEN Val(update.status) ELSE @,
        ![req].description = IF IsSome(update.description)
                             THEN Val(update.description) ELSE @]

UpdateRequest(u, req, update) ==
    LET code == update_request_check(u, req)
    IN  /\ requests' = IF code = 200 THEN update_request_write(req, update) ELSE requests
        /\ resp' = Response("update_request", code, IF code = 200 THEN req ELSE 0)
        /\ UNCHANGED <<rooms, messages, bookings, reviews, txn, users, slots, fcm, notified>>

\* --------------------------------------------- bookings.py: accept_booking
\* the path parameter is a uuid: the id of a service request, of a booking,
\* or of neither
AcceptTargets ==
    {[table |-> t, id |-> i] : t \in {"request", "booking"}, i \in 1..MaxBookings}

\* bug: the fallback resets the price as the other two paths set it
accept_booking_fallback_reprice(u, b) ==
    [bookings EXCEPT ![b].professional_id = u, ![b].status = "confirmed",
                     ![b].agreed_price = Some(0)]

\* the fallback on an existing booking
accept_booking_fallback(u, b) ==
    [bookings EXCEPT ![b].professional_id = u, ![b].status = "confirmed"]

\* the reads and early returns; path is the branch taken
accept_booking_read(u, target) ==
    IF u \notin Professionals THEN [code |-> 400, path |-> "none"]
    ELSE IF target.table = "request" /\ target.id \in DOMAIN requests
    THEN [code |-> 200, path |-> "request"]
    ELSE IF target.table = "booking" /\ target.id \in DOMAIN bookings
    THEN [code |-> 200, path |-> "booking"]
    ELSE [code |-> 404, path |-> "none"]

\* the writes of the service-request branch
accept_booking_write(u, req) ==
    /\ requests' = [requests EXCEPT ![req].status = "booked"]
    /\ bookings' = Append(bookings,
           Booking(req, requests[req].customer_id, u, Some(0), requests[req].scheduled_at))
    /\ UNCHANGED <<rooms, messages, reviews>>

\* cap: the size the bookings table may grow to
AcceptBooking(u, target, cap) ==
    LET rd == accept_booking_read(u, target)
        push == send_notification_to_user(fcm)
    IN  /\ CASE rd.path = "request" ->
                  /\ Len(bookings) < cap
                  /\ notified' = push
                  /\ IF push = "raised"
                     THEN /\ UNCHANGED db          \* session.rollback()
                          /\ resp' = Response("accept_booking", 500, 0)
                     ELSE /\ accept_booking_write(u, target.id)
                          /\ resp' = Response("accept_booking", 200, Len(bookings) + 1)
             [] rd.path = "booking" ->
                  /\ bookings' = accept_booking_fallback(u, target.id)
                  /\ resp' = Response("accept_booking", 200, target.id)
                  /\ UNCHANGED <<requests, rooms, messages, reviews, notified>>
             [] OTHER ->
                  /\ UNCHANGED <<db, notified>>
                  /\ resp' = Response("accept_booking", rd.code, 0)
        /\ UNCHANGED <<txn, users, slots, fcm>>

\* -------------------------------------- bookings.py: create_booking_legacy
CreateBookingLegacy(u) ==
    /\ Len(requests) < MaxRequests
    /\ Len(bookings) < MaxBookings
    /\ requests' = Append(requests, ServiceRequest(u, LegacyRequest, "booked", TRUE))
    /\ bookings' = Append(bookings, Booking(Len(requests) + 1, u, u, Some(0), TRUE))
    /\ resp' = Response("create_booking_legacy", 200, Len(bookings) + 1)
    /\ UNCHANGED <<rooms, messages, reviews, txn, users, slots, fcm, notified>>

\* -------------------------------------- bookings.py: read_pending_bookings
RECURSIVE OpenRequests(_)
\* select(ServiceRequest).where(status == "open"), the first n rows
OpenRequests(n) ==
    IF n = 0 THEN <<>>
    ELSE IF requests[n].status = "open"
    THEN Append(OpenRequests(n - 1), n)
    ELSE OpenRequests(n - 1)

\* the listing for professionals: one entry per open service request, under
\* the request's id
read_pending_bookings(u) ==
    IF u \notin Professionals
    THEN [code |-> 400, items |-> <<>>]
    ELSE LET open == OpenRequests(Len(requests))
         IN  [code |-> 200,
              items |-> [k \in DOMAIN open |->
                            [id |-> [table |-> "request", id |-> open[k]],
                             user_id |-> requests[open[k]].customer_id,
                             status |-> "pending"]]]

\* ------------------------------------------------ reviews.py: create_review
RatingInputs == {0, 4, 5}
ReviewCreate == {[booking_id |-> b, rating |-> n] : b \in BookingIds, n \in RatingInputs}

\* select(Review).where(booking_id, reviewer_id)
ExistingReviews(b, u) ==
    {i \in DOMAIN reviews : reviews[i].booking_id = b /\ reviews[i].reviewer_id = u}

\* bug: no check of booking.status
create_review_check_any_status(u, review_in) ==
    LET b == review_in.booking_id
    IN  IF b \notin DOMAIN bookings THEN 404
        ELSE IF u \notin Participants(bookings[b]) THEN 403
        ELSE IF ExistingReviews(b, u) # {} THEN 400
        ELSE IF ~(1 <= review_in.rating /\ review_in.rating <= 5) THEN 400
        ELSE 200

\* the checks of the handler, in order
create_review_check(u, review_in) ==
    LET b == review_in.booking_id
    IN  IF b \notin DOMAIN bookings THEN 404
        ELSE IF bookings[b].status # "completed" THEN 400
        ELSE IF u \notin Participants(bookings[b]) THEN 403
        ELSE IF ExistingReviews(b, u) # {} THEN 400
        ELSE IF ~(1 <= review_in.rating /\ review_in.rating <= 5) THEN 400
        ELSE 200

\* "Determine reviewee": the other participant
reviewee_of(u, booking) ==
    IF u = booking.customer_id THEN booking.professional_id ELSE booking.customer_id

\* Column(booking_id, unique=True): the insert is refused at the flush when
\* the booking already has a review
UniqueBookingIdOk(b) == \A i \in DOMAIN reviews : reviews[i].booking_id # b

CreateReview(u, review_in) ==
    LET code == create_review_check(u, review_in)
        b == review_in.booking_id
    IN  /\ IF code # 200
           THEN /\ UNCHANGED reviews
                /\ resp' = Response("create_review", code, 0)
           ELSE IF ~UniqueBookingIdOk(b)
           THEN /\ UNCHANGED reviews        \* IntegrityError, rolled back
                /\ resp' = Response("create_review", 500, 0)
           ELSE /\ reviews' = Append(reviews,
                       Review(b, u, reviewee_of(u, bookings[b]), review_in.rating))
                /\ resp' = Response("create_review", 200, Len(reviews) + 1)
        /\ UNCHANGED <<requests, rooms, messages, bookings, txn, users, slots, fcm, notified>>

\* ------------------------------------------- users.py: read_user_profile
\* select(...).where(Review.reviewee_id == user_id)
ReviewsAbout(user_id) == {i \in DOMAIN reviews : reviews[i].reviewee_id = user_id}

RECURSIVE SumRatings(_)
SumRatings(S) ==
    IF S = {} THEN 0
    ELSE LET i == CHOOSE j \in S : TRUE
         IN  reviews[i].rating + SumRatings(S \ {i})

\* bug: int(avg * 10) / 10, the decimals are cut off
Truncate1(num, den) == (10 * num) \div den

\* round(num / den, 1) in tenths: the nearest tenth, a tie to the even one
Round1(num, den) ==
    LET q == (10 * num) \div den
        r == (10 * num) % den
    IN  IF 2 * r > den THEN q + 1
        ELSE IF 2 * r < den THEN q
        ELSE IF q % 2 = 0 THEN q ELSE q + 1

\* select(func.count(Booking.id)).where(professional_id, status == "completed")
JobsCompleted(user_id) ==
    Cardinality({b \in DOMAIN bookings : /\ bookings[b].professional_id = user_id
                                         /\ bookings[b].status = "completed"})

\* the ProProfile returned for a user; rating is in tenths (50 is 5.0)
read_user_profile(user_id) ==
    IF user_id \notin Users
    THEN [code |-> 404, rating |-> 0, jobs_completed |-> 0, reviews_count |-> 0]
    ELSE LET about == ReviewsAbout(user_id)
             reviews_count == Cardinality(about)
         IN  [code |-> 200,
              rating |-> IF reviews_count = 0 THEN 0
                         ELSE Round1(SumRatings(about), reviews_count),
              jobs_completed |-> JobsCompleted(user_id),
              reviews_count |-> reviews_count]

\* ----------------------------------------------------- auth.py: verify_otp
\* is_valid: what otp.verify_otp_code answers for the code sent
VerifyOtp(u, is_valid) ==
    /\ IF is_valid
       THEN /\ users' = [users EXCEPT ![u].is_active = TRUE]
            /\ resp' = Response("verify_otp", 200, 0)
       ELSE /\ UNCHANGED users
            /\ resp' = Response("verify_otp", 400, 0)
    /\ UNCHANGED <<db, txn, slots, fcm, notified>>

\* ------------------------------------ availability.py: create_availability
create_availability_check(u) ==
    IF ~users[u].is_active THEN 400             \* deps.get_current_active_user
    ELSE IF users[u].role # "pro" THEN 400
    ELSE 200

CreateAvailability(u) ==
    LET code == create_availability_check(u)
    IN  /\ IF code = 200
           THEN /\ Len(slots) < MaxSlots
                /\ slots' = Append(slots, Availability(u))
                /\ resp' = Response("create_availability", 200, Len(slots) + 1)
           ELSE /\ UNCHANGED slots
                /\ resp' = Response("create_availability", code, 0)
        /\ UNCHANGED <<db, txn, users, fcm, notified>>

\* ------------------------------- requests.py: get_matched_professionals
\* the rows of a select without ORDER BY come in an order the store chooses:
\* some enumeration of the users
StoreOrders ==
    {o \in [1..Cardinality(Users) -> Users] : \A u \in Users : \E i \in DOMAIN o : o[i] = u}

service_keywords ==
    {"leak", "pipe", "faucet", "drain", "tap", "sink", "toilet", "shower",
     "wire", "switch", "socket", "light", "fan", "circuit", "board", "mcb",
     "paint", "wall", "ceiling", "waterproof", "primer", "color",
     "clean", "deep", "kitchen", "bathroom", "floor", "carpet", "sofa",
     "ac", "cooling", "gas", "compressor", "filter", "split", "window",
     "pest", "cockroach", "termite", "rat", "mosquito", "bug",
     "wood", "furniture", "door", "cabinet", "shelf", "table",
     "hair", "facial", "makeup", "spa", "massage", "nail", "wax",
     "repair", "install", "fix", "replace", "maintain", "service",
     "urgent", "emergency", "quick", "fast", "today", "asap"}

StopWords ==
    {"a", "an", "the", "is", "are", "in", "on", "at", "to", "for", "and", "or",
     "i", "my", "can", "you"}

Min(a, b) == IF a <= b THEN a ELSE b
Max(a, b) == IF a >= b THEN a ELSE b

\* a score is a fraction num / den, kept exact
Frac(num, den) == [num |-> num, den |-> den]

\* compute_keyword_score(description, bio) on the word sets of the two texts
compute_keyword_score(desc_words, bio_words) ==
    IF desc_words = {} \/ bio_words = {} THEN Frac(0, 1)
    ELSE LET desc_keywords == desc_words \cap service_keywords
             bio_keywords == bio_words \cap service_keywords
             matched == desc_keywords \cap bio_keywords
             direct_overlap == desc_words \cap (bio_words \ StopWords)
         IN  IF desc_keywords = {}
             THEN Frac(Min(Cardinality(direct_overlap) * 15, 100), 1)
             ELSE LET den == Max(Cardinality(desc_keywords), 1)
                  IN  Frac(Min(Cardinality(matched) * 100, 100 * den), den)

\* bug: a professional without reviews gets 0
rating_score_no_default(pro) ==
    LET about == ReviewsAbout(pro)
    IN  IF about = {} THEN Frac(0, 1)
        ELSE Frac(SumRatings(about) * 100, Cardinality(about) * 5)

\* (avg_rating / 5.0) * 100 if avg_rating > 0 else 50; avg(rating) is NULL
\* without reviews and at least 1 with them
rating_score(pro) ==
    LET about == ReviewsAbout(pro)
    IN  IF about = {} \/ SumRatings(about) = 0 THEN Frac(50, 1)
        ELSE Frac(SumRatings(about) * 100, Cardinality(about) * 5)

\* select(func.count(Availability.id)).where(professional_id, is_booked == False)
avail_count(pro) ==
    Cardinality({i \in DOMAIN slots : /\ slots[i].professional_id = pro
                                       /\ ~slots[i].is_booked})

availability_score(pro) == Min(avail_count(pro) * 33, 100)

experience_score(pro) == Min(JobsCompleted(pro) * 20, 100)

\* keyword 0.40 + rating 0.25 + availability 0.20 + experience 0.15
total_score(k, r, a, e) ==
    Frac(40 * k.num * r.den + 25 * r.num * k.den + (20 * a + 15 * e) * k.den * r.den,
         100 * k.den * r.den)

\* the text the keywords are taken from: description or title
request_text(request) ==
    IF request.description # {} THEN request.description ELSE request.title

\* the ProProfile built for one professional; match_score is in tenths
\* (1000 is 100.0). With at most three reviews and three keywords the total
\* is never half way between two tenths, so round(total_score, 1) is the
\* nearest tenth whatever the floating-point error.
scored_profile(request, pro) ==
    LET k == compute_keyword_score(request_text(request), users[pro].bio)
        r == rating_score(pro)
        a == availability_score(pro)
        e == experience_score(pro)
        total == total_score(k, r, a, e)
    IN  [id |-> pro, keyword_score |-> k, rating_score |-> r,
         availability_score |-> a, experience_score |-> e,
         match_score |-> Round1(total.num, total.den)]

\* bug: inactive accounts are matched too
matching_query_any_active(category_id, u) ==
    /\ users[u].role = "pro"
    /\ users[u].service_category = category_id

\* where(role == "pro", is_active == True, service_category == category_id)
matching_query(category_id, u) ==
    /\ users[u].role = "pro"
    /\ users[u].is_active
    /\ users[u].service_category = category_id

RECURSIVE select_professionals(_, _)
\* result.scalars().all(): the rows that match, in the store's order
select_professionals(category_id, order) ==
    IF order = <<>> THEN <<>>
    ELSE IF matching_query(category_id, Head(order))
    THEN <<Head(order)>> \o select_professionals(category_id, Tail(order))
    ELSE select_professionals(category_id, Tail(order))

RECURSIVE insert_unstable(_, _)
\* bug: a profile goes before the profiles of equal score
insert_unstable(sorted, p) ==
    IF sorted = <<>> THEN <<p>>
    ELSE IF Head(sorted).match_score > p.match_score
    THEN <<Head(sorted)>> \o insert_unstable(Tail(sorted), p)
    ELSE <<p>> \o sorted

RECURSIVE insert_by_score(_, _)
\* p, which came after all of sorted, goes behind every profile whose score
\* is at least its own
insert_by_score(sorted, p) ==
    IF sorted = <<>> THEN <<p>>
    ELSE IF Head(sorted).match_score >= p.match_score
    THEN <<Head(sorted)>> \o insert_by_score(Tail(sorted), p)
    ELSE <<p>> \o sorted

RECURSIVE sort_by_score(_)
\* profiles.sort(key=match_score, reverse=True): descending and stable
sort_by_score(profiles) ==
    IF profiles = <<>> THEN <<>>
    ELSE insert_by_score(sort_by_score(SubSeq(profiles, 1, Len(profiles) - 1)),
                         profiles[Len(profiles)])

\* the answer to GET /requests/{request_id}/matches when the store returns
\* rows in the given order
get_matched_professionals(request_id, order) ==
    IF request_id \notin DOMAIN requests
    THEN [code |-> 404, items |-> <<>>]
    ELSE LET request == requests[request_id]
             professionals == select_professionals(request.category_id, order)
             profiles == [i \in DOMAIN professionals |->
                             scored_profile(request, professionals[i])]
         IN  [code |-> 200, items |-> sort_by_score(profiles)]

\* ------------------------------------------- database.py: get_db, per request
\* Each request runs in its own session: its reads see committed rows only,
\* its writes are flushed inside the transaction and become visible at the
\* commit that follows the handler's return (get_db line 26); an exception
\* rolls all of them back (line 28).
Flushed(op) == {q \in Procs : txn[q].pc = "flushed" /\ txn[q].op = op}

\* a new request is served by the lowest free slot
FreeSlot(p) == /\ txn[p].pc # "flushed"
               /\ \A q \in Procs : q < p => txn[q].pc = "flushed"

RacingAccepts(p, r) == {q \in Flushed("accept_price") \ {p} : txn[q].room = r}

BeginCreateChatRoom(p, u, req, pro) ==
    LET rd == create_chat_room_read(u, req, pro)
    IN  /\ FreeSlot(p)
        /\ IF rd.new
           THEN /\ Len(rooms) + Cardinality(Flushed("create_chat_room")) < MaxRooms
                /\ Len(messages) + Cardinality(InFlight) < MaxMessages
                /\ txn' = [txn EXCEPT ![p] =
                       [IdleTxn EXCEPT !.pc = "flushed", !.op = "create_chat_room",
                                       !.user = u, !.request = req, !.pro = pro]]
                /\ UNCHANGED resp
           ELSE /\ txn' = [txn EXCEPT ![p] = DoneTxn("create_chat_room", rd.id, rd.code, FALSE)]
                /\ resp' = Response("create_chat_room", rd.code, rd.id)
        /\ UNCHANGED <<db, users, slots, fcm, notified>>

BeginAcceptPrice(p, u, r) ==
    LET rd == accept_price_read(u, r)
    IN  /\ FreeSlot(p)
        /\ IF rd.code = 200
           THEN /\ Len(bookings) + Cardinality(Flushed("accept_price")) < MaxBookings
                /\ Len(messages) + Cardinality(InFlight) < MaxMessages
                /\ txn' = [q \in Procs |->
                       IF q = p
                       THEN [IdleTxn EXCEPT !.pc = "flushed", !.op = "accept_price",
                                            !.user = u, !.room = r, !.price = rd.price,
                                            !.raced = RacingAccepts(p, r) # {}]
                       ELSE IF q \in RacingAccepts(p, r)
                       THEN [txn[q] EXCEPT !.raced = TRUE]
                       ELSE txn[q]]
                /\ UNCHANGED resp
           ELSE /\ txn' = [txn EXCEPT ![p] = DoneTxn("accept_price", r, rd.code, FALSE)]
                /\ resp' = Response("accept_price", rd.code, 0)
        /\ UNCHANGED <<db, users, slots, fcm, notified>>

\* the session of a direct accept that has answered; seen is the status the
\* handler read on the request
DoneAccept(t, code) ==
    IF t.raced
    THEN [IdleTxn EXCEPT !.pc = "done", !.op = t.op, !.user = t.user,
                         !.request = t.request, !.seen = t.seen,
                         !.code = code, !.raced = TRUE]
    ELSE IdleTxn

RacingDirect(p, req) == {q \in Flushed("accept_booking") \ {p} : txn[q].request = req}

\* accept_booking of a service request, up to its flush
BeginAcceptBooking(p, u, req) ==
    LET rd == accept_booking_read(u, [table |-> "request", id |-> req])
    IN  /\ FreeSlot(p)
        /\ IF rd.path = "request"
           THEN /\ Len(bookings) + Cardinality(Flushed("accept_booking")) < MaxBookings
                /\ txn' = [q \in Procs |->
                       IF q = p
                       THEN [IdleTxn EXCEPT !.pc = "flushed", !.op = "accept_booking",
                                            !.user = u, !.request = req,
                                            !.seen = requests[req].status,
                                            !.raced = RacingDirect(p, req) # {}]
                       ELSE IF q \in RacingDirect(p, req)
                       THEN [txn[q] EXCEPT !.raced = TRUE]
                       ELSE txn[q]]
                /\ UNCHANGED resp
           ELSE /\ txn' = [txn EXCEPT ![p] = IdleTxn]
                /\ resp' = Response("accept_booking", rd.code, 0)
        /\ UNCHANGED <<db, users, slots, fcm, notified>>

\* the rest of the handler and session.commit(): the push to the other party
\* (accept_price, accept_booking), then the flushed writes reach the tables
\* together
CommitTxn(p) ==
    LET t == txn[p]
        push == send_notification_to_user(fcm)
    IN  /\ t.pc = "flushed"
        /\ push # "raised"
        /\ notified' = IF t.op = "create_chat_room" THEN notified ELSE push
        /\ UNCHANGED <<users, slots, fcm>>
        /\ IF t.op = "accept_price"
           THEN /\ accept_price_write(t.user, t.room, t.price)
                /\ resp' = Response(t.op, 200, Len(bookings) + 1)
                /\ txn' = [txn EXCEPT ![p] = DoneTxn(t.op, t.room, 200, t.raced)]
           ELSE IF t.op = "accept_booking"
           THEN /\ accept_booking_write(t.user, t.request)
                /\ resp' = Response(t.op, 200, Len(bookings) + 1)
                /\ txn' = [txn EXCEPT ![p] = DoneAccept(t, 200)]
           ELSE /\ create_chat_room_write(t.user, t.request, t.pro)
                /\ resp' = Response(t.op, 200, Len(rooms) + 1)
                /\ txn' = [txn EXCEPT ![p] = DoneTxn(t.op, Len(rooms) + 1, 200, FALSE)]

\* an exception before the commit (the connection drops, the flush or the
\* commit fails): session.rollback(), the caller gets a 500
RollbackTxn(p) ==
    /\ txn[p].pc = "flushed"
    /\ txn' = [txn EXCEPT ![p] = IF txn[p].op = "accept_booking"
                                  THEN DoneAccept(txn[p], 500)
                                  ELSE DoneTxn(txn[p].op, txn[p].room, 500, txn[p].raced)]
    /\ resp' = Response(txn[p].op, 500, 0)
    /\ UNCHANGED <<db, users, slots, fcm, notified>>

\* ------------------------------------------------------- specifications
\* Spec: requests are served one at a time, each handler from its first read
\* to its commit.
Next ==
    \/ \E u \in Customers : CreateServiceRequest(u, LeakRequest)
    \/ \E u \in RoomCreators, req \in RequestIds, pro \in Professionals : CreateChatRoom(u, req, pro)
    \/ \E u \in Users, r \in RoomIds, m \in MessageCreate : SendMessage(u, r, m)
    \/ \E u \in Users, r \in RoomIds : AcceptPrice(u, r)
    \/ \E u \in Users, b \in BookingIds, s \in BookingStatus : UpdateBookingStatus(u, b, s)

Spec == Init /\ [][Next]_vars

\* SpecConc: two handlers at a time; create_chat_room and accept_price run
\* between their reads and their commit while the other handler runs.
NextConc ==
    \/ \E u \in Customers : CreateServiceRequest(u, LeakRequest)
    \/ \E p \in Procs, u \in RoomCreators, req \in RequestIds, pro \in Professionals :
           BeginCreateChatRoom(p, u, req, pro)
    \/ \E u \in Users, r \in RoomIds, m \in MessageCreate : SendMessage(u, r, m)
    \/ \E p \in Procs, u \in Users, r \in RoomIds : BeginAcceptPrice(p, u, r)
    \/ \E p \in Procs : CommitTxn(p)
    \/ \E p \in Procs : RollbackTxn(p)

SpecConc == Init /\ [][NextConc]_vars

\* SpecBook: the ways a booking comes to exist and what happens to it and to
\* its request afterwards, one handler at a time: c1 proposes prices to p1 in
\* their room and p1 accepts, either professional accepts directly (a request,
\* or a booking that exists), c1 books the legacy way, and c1 updates the
\* request and ends the bookings.
ProposalInputs ==
    {[message_type |-> "price_proposal", proposed_price |-> Some(p)] : p \in {1, 2}}

RequestStatusInputs ==
    {[status |-> Some(s), description |-> None] : s \in {"open", "completed", "cancelled"}}

NextBook ==
    \/ \E u \in Customers : CreateServiceRequest(u, LeakRequest)
    \/ \E u \in Customers, req \in RequestIds : CreateChatRoom(u, req, "p1")
    \/ \E u \in Customers, r \in RoomIds, m \in ProposalInputs : SendMessage(u, r, m)
    \/ \E r \in RoomIds : AcceptPrice("p1", r)
    \/ \E u \in Customers, req \in RequestIds, update \in RequestStatusInputs :
           UpdateRequest(u, req, update)
    \/ \E u \in Professionals, target \in AcceptTargets : AcceptBooking(u, target, MaxBookings)
    \/ \E u \in Customers : CreateBookingLegacy(u)
    \/ \E u \in Customers, b \in BookingIds, s \in {"completed", "cancelled"} :
           UpdateBookingStatus(u, b, s)

SpecBook == Init /\ [][NextBook]_vars

\* SpecReview: bookings from direct accepts and the legacy path, their status
\* updates and reviews by anyone.

NextReview ==
    \/ \E u \in Customers : CreateServiceRequest(u, LeakRequest)
    \/ \E u \in Professionals, target \in AcceptTargets : AcceptBooking(u, target, MaxBookings)
    \/ \E u \in Customers : CreateBookingLegacy(u)
    \/ \E u \in Users, b \in BookingIds, s \in BookingStatus : UpdateBookingStatus(u, b, s)
    \/ \E u \in Users, review_in \in ReviewCreate : CreateReview(u, review_in)

SpecReview == Init /\ [][NextReview]_vars

\* SpecConcBook: two handlers at a time; a direct accept of a service request
\* runs between its reads and its commit while the other handler runs.
NextConcBook ==
    \/ \E u \in Customers : CreateServiceRequest(u, LeakRequest)
    \/ \E p \in Procs, u \in Users, req \in RequestIds : BeginAcceptBooking(p, u, req)
    \/ \E p \in Procs : CommitTxn(p)
    \/ \E p \in Procs : RollbackTxn(p)
    \/ \E u \in Users, b \in BookingIds, s \in BookingStatus : UpdateBookingStatus(u, b, s)

SpecConcBook == Init /\ [][NextConcBook]_vars

\* SpecProfile: p1 accepts the requests of c1 directly, up to MaxJobs
\* bookings, c1 completes them, and both review.
ProfileReviewInputs ==
    {[booking_id |-> b, rating |-> n] : b \in 1..MaxJobs, n \in {4, 5}}

NextProfile ==
    \/ \E u \in Customers : CreateServiceRequest(u, LeakRequest)
    \/ \E req \in RequestIds : AcceptBooking("p1", [table |-> "request", id |-> req], MaxJobs)
    \/ \E u \in Customers, b \in 1..MaxJobs : UpdateBookingStatus(u, b, "completed")
    \/ \E u \in {"c1", "p1"}, review_in \in ProfileReviewInputs : CreateReview(u, review_in)

SpecProfile == Init /\ [][NextProfile]_vars

\* SpecNotify: the three handlers that push to the other party, under every
\* state of the delivery: c1 and p1 negotiate in their room and accept, the
\* professionals accept the request directly, and the delivery breaks down
\* and recovers in between.
InitNotify ==
    /\ requests = <<>>
    /\ rooms = <<>>
    /\ messages = <<>>
    /\ bookings = <<>>
    /\ reviews = <<>>
    /\ txn = [p \in Procs |-> IdleTxn]
    /\ resp = Response("none", 0, 0)
    /\ users = VerifiedUsers
    /\ slots = <<>>
    /\ fcm \in FcmStates
    /\ notified = "none"

\* messaging.send_multicast starts or stops raising
FcmChanges ==
    /\ fcm \in {"up", "down"}
    /\ fcm' = IF fcm = "up" THEN "down" ELSE "up"
    /\ UNCHANGED <<db, txn, resp, users, slots, notified>>

NotifyMessages ==
    {[message_type |-> "price_proposal", proposed_price |-> Some(1)],
     [message_type |-> "text", proposed_price |-> None]}

NextNotify ==
    \/ \E u \in Customers : CreateServiceRequest(u, LeakRequest)
    \/ \E u \in Customers, req \in RequestIds : CreateChatRoom(u, req, "p1")
    \/ \E u \in Customers, r \in RoomIds, m \in NotifyMessages : SendMessage(u, r, m)
    \/ \E u \in {"c1", "p1"}, r \in RoomIds : AcceptPrice(u, r)
    \/ \E req \in RequestIds :
           AcceptBooking("p1", [table |-> "request", id |-> req], MaxBookings)
    \/ FcmChanges

SpecNotify == InitNotify /\ [][NextNotify]_vars

\* SpecMatch: the data the matching reads. p1 is a verified plumber; p2 has
\* signed up as a professional of some category with some bio and verifies
\* later. c1 posts a request, the professionals publish slots, p1 accepts
\* the request directly, c1 completes the bookings and reviews p1.
InitMatch ==
    /\ requests = <<>>
    /\ rooms = <<>>
    /\ messages = <<>>
    /\ bookings = <<>>
    /\ reviews = <<>>
    /\ txn = [p \in Procs |-> IdleTxn]
    /\ resp = Response("none", 0, 0)
    /\ \E category \in Categories, bio \in Bios :
           users = [VerifiedUsers EXCEPT !["p2"] = User("pro", category, bio, FALSE)]
    /\ slots = <<>>
    /\ fcm = "up"
    /\ notified = "none"

MatchReviewInputs ==
    {[booking_id |-> b, rating |-> n] : b \in BookingIds, n \in {3, 5}}

NextMatch ==
    \/ \E u \in Customers, request_in \in ServiceRequestCreate : CreateServiceRequest(u, request_in)
    \/ \E is_valid \in BOOLEAN : VerifyOtp("p2", is_valid)
    \/ \E u \in Users : CreateAvailability(u)
    \/ \E req \in RequestIds :
           AcceptBooking("p1", [table |-> "request", id |-> req], MaxBookings)
    \/ \E u \in Customers, b \in BookingIds : UpdateBookingStatus(u, b, "completed")
    \/ \E u \in Customers, review_in \in MatchReviewInputs : CreateReview(u, review_in)

SpecMatch == InitMatch /\ [][NextMatch]_vars

\* ================================================================ claims
NoEffects == UNCHANGED <<requests, rooms, messages, bookings, reviews>>

IsProposalIn(i, r) ==
    /\ messages[i].chat_room_id = r
    /\ messages[i].message_type = "price_proposal"

\* message i is the most recently created price_proposal of room r
IsLatestProposal(i, r) ==
    /\ i \in DOMAIN messages
    /\ IsProposalIn(i, r)
    /\ \A j \in DOMAIN messages : j > i => ~IsProposalIn(j, r)

HasProposal(r) == \E i \in DOMAIN messages : IsProposalIn(i, r)

SameTriple(a, b) ==
    /\ a.request_id = b.request_id
    /\ a.customer_id = b.customer_id
    /\ a.professional_id = b.professional_id

BookingsOfRoom(r) == {b \in DOMAIN bookings : SameTriple(bookings[b], rooms[r])}

\* the four writes of an acceptance by u of price in room r, all in this step
AcceptEffects(r, u, price) ==
    /\ messages' = Append(messages,
           [chat_room_id |-> r, sender_id |-> u,
            message_type |-> "price_accept", proposed_price |-> price])
    /\ rooms'[r].status = "closed"
    /\ requests'[rooms[r].request_id].status = "booked"
    /\ Len(bookings') = Len(bookings) + 1
    /\ SameTriple(bookings'[Len(bookings')], rooms[r])
    /\ bookings'[Len(bookings')].status = "confirmed"
    /\ bookings'[Len(bookings')].agreed_price = price

\* C1: two accept_price calls on one room that were in flight at the same
\* time (neither hit by a server failure): exactly one answers 200, the other
\* 400 or 409, and the room has exactly one Booking.
C1_OneConcurrentAcceptWins ==
    \A p, q \in Procs :
        ( /\ p < q
          /\ txn[p].pc = "done" /\ txn[q].pc = "done"
          /\ txn[p].op = "accept_price" /\ txn[q].op = "accept_price"
          /\ txn[p].raced /\ txn[q].raced
          /\ txn[p].room = txn[q].room
          /\ txn[p].code # 500 /\ txn[q].code # 500 )
        => /\ {txn[p].code, txn[q].code} \in {{200, 400}, {200, 409}}
           /\ Cardinality(BookingsOfRoom(txn[p].room)) = 1

\* C2: an accept_price handler that ends (commit or rollback) leaves either
\* all four of its writes in the tables or none of them, and a room is never
\* closed without the other three writes landing in the same step.
C2_AcceptPriceAtomic ==
    [][ /\ \A p \in Procs :
             (txn[p].pc = "flushed" /\ txn[p].op = "accept_price" /\ txn'[p].pc # "flushed")
             => \/ AcceptEffects(txn[p].room, txn[p].user, txn[p].price)
                \/ NoEffects
        /\ \A r \in DOMAIN rooms :
             (rooms[r].status = "active" /\ rooms'[r].status = "closed")
             => \E u \in Users, price \in PriceInputs : AcceptEffects(r, u, price)
      ]_vars

\* an acceptance was committed: a closed room with its booking
C2_Witness ==
    /\ resp.op = "accept_price" /\ resp.code = 200
    /\ \E r \in DOMAIN rooms :
          /\ rooms[r].status = "closed"
          /\ requests[rooms[r].request_id].status = "booked"
          /\ BookingsOfRoom(r) # {}

\* C3: a successful accept_price creates a confirmed Booking whose agreed_price
\* is the proposed_price of the room's most recent price_proposal, and closes
\* the room.
C3_AcceptsLatestProposal ==
    [][ (resp'.op = "accept_price" /\ resp'.code = 200)
        => \A r \in DOMAIN rooms, u \in Users :
              AcceptPrice(u, r)
              => \E i \in DOMAIN messages :
                    /\ IsLatestProposal(i, r)
                    /\ Len(bookings') = Len(bookings) + 1
                    /\ bookings'[Len(bookings')].status = "confirmed"
                    /\ bookings'[Len(bookings')].agreed_price = messages[i].proposed_price
                    /\ rooms'[r].status = "closed"
      ]_vars

\* an acceptance after two proposals with different prices by different senders
C3_Witness ==
    /\ resp.op = "accept_price" /\ resp.code = 200
    /\ \E r \in DOMAIN rooms, i, j \in DOMAIN messages :
          /\ i < j
          /\ IsProposalIn(i, r)
          /\ IsLatestProposal(j, r)
          /\ messages[i].proposed_price # messages[j].proposed_price
          /\ messages[i].sender_id # messages[j].sender_id
          /\ rooms[r].status = "closed"
          /\ bookings[resp.id].agreed_price = messages[j].proposed_price

OwnLatestProposal(u, r) ==
    \E i \in DOMAIN messages : IsLatestProposal(i, r) /\ messages[i].sender_id = u

\* C4: accept_price on an existing room answers 200 only if the room has a
\* price_proposal and the latest one is not the caller's; with no proposal, or
\* the caller's own latest proposal, it answers an error and changes no table.
C4_AcceptNeedsForeignProposal ==
    [][ resp'.op = "accept_price"
        => \A r \in DOMAIN rooms, u \in Users :
              AcceptPrice(u, r)
              => /\ resp'.code = 200 => (HasProposal(r) /\ ~OwnLatestProposal(u, r))
                 /\ (~HasProposal(r) \/ OwnLatestProposal(u, r))
                       => (resp'.code \in {400, 403} /\ NoEffects)
      ]_vars

\* accept_price was refused although every room holds a proposal: the caller
\* was the proposer
C4_Witness ==
    /\ resp.op = "accept_price" /\ resp.code = 400
    /\ rooms # <<>>
    /\ \A r \in DOMAIN rooms : HasProposal(r)

\* C5: send_message by a participant of a closed room answers 400 and stores
\* no message.
C5_ClosedRoomRejectsMessages ==
    [][ resp'.op = "send_message"
        => \A r \in DOMAIN rooms :
              rooms[r].status = "closed"
              => \A u \in {rooms[r].customer_id, rooms[r].professional_id},
                    m \in MessageCreate :
                    SendMessage(u, r, m) => (resp'.code = 400 /\ NoEffects)
      ]_vars

\* send_message was refused with 400 when every room was closed
C5_Witness ==
    /\ resp.op = "send_message" /\ resp.code = 400
    /\ rooms # <<>>
    /\ \A r \in DOMAIN rooms : rooms[r].status = "closed"

\* C6: every stored price_proposal carries a proposed_price that is present and
\* positive.
C6_StoredProposalsPositive ==
    \A i \in DOMAIN messages :
        messages[i].message_type = "price_proposal"
        => (IsSome(messages[i].proposed_price) /\ Val(messages[i].proposed_price) > 0)

\* C7: create_chat_room for a triple that has a room answers 200 with that
\* room's id and changes no table; for a new triple it inserts one room holding
\* exactly one message, of type system; either way the triple then has exactly
\* one room.
C7_CreateChatRoomIdempotent ==
    [][ resp'.op = "create_chat_room"
        => \A req \in DOMAIN requests, u \in RoomCreators, pro \in Professionals :
              CreateChatRoom(u, req, pro)
              => LET t == [request_id |-> req, customer_id |-> u, professional_id |-> pro]
                     before == {i \in DOMAIN rooms : SameTriple(rooms[i], t)}
                     after == {i \in DOMAIN rooms' : SameTriple(rooms'[i], t)}
                     msgs == {i \in DOMAIN messages' : messages'[i].chat_room_id = resp'.id}
                 IN  /\ resp'.code = 200
                     /\ after = {resp'.id}
                     /\ before # {} => (before = after /\ NoEffects)
                     /\ before = {} =>
                           /\ Cardinality(msgs) = 1
                           /\ \A i \in msgs : messages'[i].message_type = "system"
      ]_vars

\* create_chat_room answered with the id of a room that already held messages
\* beyond its system message
C7_Witness ==
    /\ resp.op = "create_chat_room" /\ resp.code = 200
    /\ resp.id \in DOMAIN rooms
    /\ Cardinality({i \in DOMAIN messages : messages[i].chat_room_id = resp.id}) > 1

\* C8: no two chat rooms share (request, customer, professional).
C8_OneRoomPerTriple ==
    \A i, j \in DOMAIN rooms : SameTriple(rooms[i], rooms[j]) => i = j

Outsiders(row) == Users \ {row.customer_id, row.professional_id}

\* C9: send_message and accept_price by a user who is neither the room's
\* customer nor its professional, and update_booking_status by a user who is
\* neither the booking's customer nor its professional, answer 403 and change
\* no table.
C9_NonParticipantsForbidden ==
    [][ /\ resp'.op = "send_message"
           => \A r \in DOMAIN rooms : \A u \in Outsiders(rooms[r]), m \in MessageCreate :
                 SendMessage(u, r, m) => (resp'.code = 403 /\ NoEffects)
        /\ resp'.op = "accept_price"
           => \A r \in DOMAIN rooms : \A u \in Outsiders(rooms[r]) :
                 AcceptPrice(u, r) => (resp'.code = 403 /\ NoEffects)
        /\ resp'.op = "update_booking_status"
           => \A b \in DOMAIN bookings : \A u \in Outsiders(bookings[b]), s \in BookingStatus :
                 UpdateBookingStatus(u, b, s) => (resp'.code = 403 /\ NoEffects)
      ]_vars

\* an outsider's status update of a booking was refused
C9_Witness ==
    /\ resp.op = "update_booking_status" /\ resp.code = 403
    /\ bookings # <<>>

BookingRank(s) == CASE s = "confirmed" -> 0 [] s = "in_progress" -> 1 [] OTHER -> 2

\* C10: a Booking's status never moves backward and never leaves completed or
\* cancelled.
C10_BookingStatusForwardOnly ==
    [][ \A b \in DOMAIN bookings :
          \/ bookings'[b].status = bookings[b].status
          \/ /\ bookings[b].status \in {"confirmed", "in_progress"}
             /\ BookingRank(bookings'[b].status) > BookingRank(bookings[b].status)
      ]_vars

\* C11: a successful update_booking_status changes, of all the tables, only
\* the status of the booking it names, and its completed_at when and only when
\* the new status is completed; the booking's price, customer, professional,
\* request and scheduled_at and every other row stay as they were.
C11_StatusUpdateFrame ==
    [][ (resp'.op = "update_booking_status" /\ resp'.code = 200)
        => /\ UNCHANGED <<requests, rooms, messages, reviews>>
           /\ DOMAIN bookings' = DOMAIN bookings
           /\ \A b \in DOMAIN bookings :
                LET old == bookings[b]
                    new == bookings'[b]
                IN  /\ new.agreed_price = old.agreed_price
                    /\ new.customer_id = old.customer_id
                    /\ new.professional_id = old.professional_id
                    /\ new.request_id = old.request_id
                    /\ new.scheduled_at = old.scheduled_at
                    /\ b # resp'.id => new = old
                    /\ new.completed_at # old.completed_at => new.status = "completed"
                    /\ (b = resp'.id /\ new.status = "completed") => new.completed_at
      ]_vars

\* a reviewed booking was moved from completed to in_progress and kept its
\* completed_at
C11_Witness ==
    /\ resp.op = "update_booking_status" /\ resp.code = 200
    /\ bookings[resp.id].status = "in_progress"
    /\ bookings[resp.id].completed_at
    /\ \E i \in DOMAIN reviews : reviews[i].booking_id = resp.id

\* C12: no step changes the agreed_price of a booking that exists, whichever
\* way the booking was created.
C12_AgreedPriceFixed ==
    [][ \A b \in DOMAIN bookings : bookings'[b].agreed_price = bookings[b].agreed_price ]_vars

\* a booking created from an accepted proposal was taken over by p2 through
\* a direct accept and still has the proposal's price
C12_Witness ==
    /\ resp.op = "accept_booking" /\ resp.code = 200
    /\ resp.id \in DOMAIN bookings
    /\ bookings[resp.id].professional_id = "p2"
    /\ bookings[resp.id].agreed_price \in {Some(1), Some(2)}

\* C13: a direct accept of a service request whose status is not open answers
\* 409, creates no booking and leaves the request as it was.
C13_DirectAcceptNeedsOpen ==
    [][ resp'.op = "accept_booking"
        => \A req \in DOMAIN requests :
              requests[req].status # "open"
              => \A u \in Professionals :
                    AcceptBooking(u, [table |-> "request", id |-> req], MaxBookings)
                    => (resp'.code = 409 /\ NoEffects) ]_vars

RequestRank(s) ==
    CASE s = "open" -> 0 [] s = "matched" -> 1 [] s = "booked" -> 2 [] OTHER -> 3

BookingsOfRequest(req) == {b \in DOMAIN bookings : bookings[b].request_id = req}

\* C14: two direct accepts of one service request that both read it open and
\* were in flight at the same time (neither hit by a server failure): exactly
\* one answers 200, the other fails, and the request has exactly one booking.
C14_OneConcurrentDirectAcceptWins ==
    \A p, q \in Procs :
        ( /\ p < q
          /\ txn[p].pc = "done" /\ txn[q].pc = "done"
          /\ txn[p].op = "accept_booking" /\ txn[q].op = "accept_booking"
          /\ txn[p].raced /\ txn[q].raced
          /\ txn[p].request = txn[q].request
          /\ txn[p].user # txn[q].user
          /\ txn[p].seen = "open" /\ txn[q].seen = "open"
          /\ txn[p].code # 500 /\ txn[q].code # 500 )
        => /\ Cardinality({r \in {p, q} : txn[r].code = 200}) = 1
           /\ Cardinality(BookingsOfRequest(txn[p].request)) = 1

\* C15: a service request's status only moves forward in open, matched,
\* booked, completed, or to cancelled from a status that is not terminal;
\* completed and cancelled are never left.
C15_RequestStatusMonotonic ==
    [][ \A req \in DOMAIN requests :
          LET old == requests[req].status
              new == requests'[req].status
          IN  \/ new = old
              \/ /\ old \notin {"completed", "cancelled"}
                 /\ new = "cancelled" \/ RequestRank(new) > RequestRank(old)
      ]_vars

\* C16: create_review on a booking whose status is not completed answers 400
\* and stores no review; a review is stored only for a completed booking.
C16_ReviewNeedsCompleted ==
    [][ resp'.op = "create_review"
        => /\ \A b \in DOMAIN bookings :
                bookings[b].status # "completed"
                => \A u \in Participants(bookings[b]), n \in RatingInputs :
                      CreateReview(u, [booking_id |-> b, rating |-> n])
                      => (resp'.code = 400 /\ NoEffects)
           /\ reviews' # reviews
              => bookings[reviews'[Len(reviews')].booking_id].status = "completed"
      ]_vars

\* a participant's review of a cancelled booking was refused
C16_Witness ==
    /\ resp.op = "create_review" /\ resp.code = 400
    /\ \E b \in DOMAIN bookings : bookings[b].status = "cancelled"
    /\ \A b \in DOMAIN bookings : bookings[b].status # "completed"
    /\ reviews = <<>>

\* C17: no two reviews share booking and reviewer, and create_review by a
\* user who has already reviewed the booking answers 400 and stores nothing.
C17_OneReviewPerReviewer ==
    [][ /\ \A i, j \in DOMAIN reviews' :
             ( /\ reviews'[i].booking_id = reviews'[j].booking_id
               /\ reviews'[i].reviewer_id = reviews'[j].reviewer_id ) => i = j
        /\ resp'.op = "create_review"
           => \A i \in DOMAIN reviews, n \in RatingInputs :
                 CreateReview(reviews[i].reviewer_id,
                              [booking_id |-> reviews[i].booking_id, rating |-> n])
                 => (resp'.code = 400 /\ NoEffects)
      ]_vars

\* C18: on a completed booking that one participant has reviewed, the first
\* review by the other participant answers 200 and is stored.
C18_BothParticipantsReview ==
    [][ resp'.op = "create_review"
        => \A b \in DOMAIN bookings :
              bookings[b].status = "completed"
              => \A u \in Participants(bookings[b]), n \in RatingInputs \cap 1..5 :
                    ( /\ ExistingReviews(b, u) = {}
                      /\ \E v \in Participants(bookings[b]) \ {u} : ExistingReviews(b, v) # {}
                      /\ CreateReview(u, [booking_id |-> b, rating |-> n]) )
                    => /\ resp'.code = 200
                       /\ reviews' = Append(reviews, reviews'[Len(reviews')])
                       /\ reviews'[Len(reviews')].booking_id = b
                       /\ reviews'[Len(reviews')].reviewer_id = u
      ]_vars

\* C19: every stored review is by a participant of its booking about the
\* other participant, and nobody reviews themselves.
C19_ReviewBetweenParticipants ==
    \A i \in DOMAIN reviews :
        LET booking == bookings[reviews[i].booking_id]
        IN  /\ reviews[i].reviewer_id # reviews[i].reviewee_id
            /\ {reviews[i].reviewer_id, reviews[i].reviewee_id}
                   = {booking.customer_id, booking.professional_id}

\* the ratings received by a user, added up in the order of the table
RECURSIVE RatingTotal(_, _)
RatingTotal(user_id, n) ==
    IF n = 0 THEN 0
    ELSE RatingTotal(user_id, n - 1)
         + (IF reviews[n].reviewee_id = user_id THEN reviews[n].rating ELSE 0)

RatingCount(user_id) ==
    Cardinality({i \in DOMAIN reviews : reviews[i].reviewee_id = user_id})

CompletedJobs(user_id) ==
    Cardinality({b \in DOMAIN bookings : bookings[b].status = "completed"} \cap
                {b \in DOMAIN bookings : bookings[b].professional_id = user_id})

Abs(x) == IF x < 0 THEN -x ELSE x

\* C20, as stated: the profile's rating is the mean of the ratings received
\* (rating / 10 = total / count), 0.0 with count 0 when there are none, and
\* jobs_completed counts the user's completed bookings as professional.
C20_ProfileRatingIsMean ==
    \A u \in Users :
        LET profile == read_user_profile(u)
        IN  /\ profile.code = 200
            /\ profile.reviews_count = RatingCount(u)
            /\ profile.rating * RatingCount(u) = 10 * RatingTotal(u, Len(reviews))
            /\ profile.jobs_completed = CompletedJobs(u)

\* C20, amended: the rating is the mean rounded to one decimal place, that is
\* the multiple of 0.1 within 0.05 of the mean.
C20_ProfileRatingIsRoundedMean ==
    \A u \in Users :
        LET profile == read_user_profile(u)
        IN  /\ profile.code = 200
            /\ profile.reviews_count = RatingCount(u)
            /\ RatingCount(u) = 0 => profile.rating = 0
            /\ 2 * Abs(profile.rating * RatingCount(u) - 10 * RatingTotal(u, Len(reviews)))
                   <= RatingCount(u)
            /\ profile.jobs_completed = CompletedJobs(u)

\* p1 has one completed booking, reviewed with 5: rating 5.0, one job
C20_Witness ==
    /\ Len(bookings) = 1 /\ bookings[1].status = "completed"
    /\ Len(reviews) = 1 /\ reviews[1].reviewee_id = "p1" /\ reviews[1].rating = 5
    /\ read_user_profile("p1").rating = 50
    /\ read_user_profile("p1").jobs_completed = 1
    /\ read_user_profile("p1").reviews_count = 1

\* C27: no service request has more than one booking.
C27_OneBookingPerRequest ==
    \A req \in DOMAIN requests : Cardinality(BookingsOfRequest(req)) <= 1

\* C28: the customer of every chat room and of every booking is the customer
\* of its service request, and an accept_price never sets to booked a request
\* that the room's customer does not own.
C28_CustomerOwnsRequest ==
    [][ /\ \A r \in DOMAIN rooms' :
             rooms'[r].customer_id = requests'[rooms'[r].request_id].customer_id
        /\ \A b \in DOMAIN bookings' :
             bookings'[b].customer_id = requests'[bookings'[b].request_id].customer_id
        /\ (resp'.op = "accept_price" /\ resp'.code = 200)
           => \A r \in DOMAIN rooms :
                 (rooms[r].status = "active" /\ rooms'[r].status = "closed")
                 => rooms[r].customer_id = requests[rooms[r].request_id].customer_id
      ]_vars

\* C29: a booking that has a professional keeps its customer, professional
\* and request for ever, and an accept_booking call never resets its status.
C29_BookingKeepsParties ==
    [][ \A b \in DOMAIN bookings :
          bookings[b].professional_id \in Professionals
          => /\ bookings'[b].customer_id = bookings[b].customer_id
             /\ bookings'[b].professional_id = bookings[b].professional_id
             /\ bookings'[b].request_id = bookings[b].request_id
             /\ resp'.op = "accept_booking" => bookings'[b].status = bookings[b].status
      ]_vars

\* C30: every review's booking has status completed.
C30_ReviewedStaysCompleted ==
    \A i \in DOMAIN reviews : bookings[reviews[i].booking_id].status = "completed"

\* C26: a booking made through create_booking_legacy that no professional has
\* accepted yet (its professional is still the customer, the placeholder) is
\* in the pending listing of every professional, under the booking's id.
C26_LegacyBookingListedPending ==
    \A b \in DOMAIN bookings :
        bookings[b].professional_id = bookings[b].customer_id
        => \A pro \in Professionals :
              LET pending == read_pending_bookings(pro)
              IN  /\ pending.code = 200
                  /\ \E k \in DOMAIN pending.items :
                        pending.items[k].id = [table |-> "booking", id |-> b]

\* C25: whatever the state of the delivery, a send_message, an accept_price
\* or a direct accept_booking that passes its checks answers 200 and commits
\* its writes: the message; or the accept message, the closed room, the
\* booked request and the Booking; or the booked request and the Booking.
C25_PushFailureSuppressed ==
    [][ /\ \A u \in Users, r \in RoomIds, m \in MessageCreate :
              (send_message_check(u, r, m) = 200 /\ SendMessage(u, r, m))
              => /\ resp' = Response("send_message", 200, 0)
                 /\ messages' = Append(messages,
                        Message(r, u, m.message_type, m.proposed_price))
        /\ \A u \in Users, r \in RoomIds :
              (accept_price_read(u, r).code = 200 /\ AcceptPrice(u, r))
              => /\ resp' = Response("accept_price", 200, Len(bookings'))
                 /\ AcceptEffects(r, u, LastProposal(r).proposed_price)
        /\ \A u \in Professionals, req \in DOMAIN requests :
              AcceptBooking(u, [table |-> "request", id |-> req], MaxBookings)
              => /\ resp' = Response("accept_booking", 200, Len(bookings'))
                 /\ requests'[req].status = "booked"
                 /\ bookings' = Append(bookings,
                        Booking(req, requests[req].customer_id, u, Some(0),
                                requests[req].scheduled_at)) ]_vars

\* an acceptance was committed and answered 200 while the delivery raised
C25_Witness ==
    /\ notified = "logged"
    /\ resp = Response("accept_price", 200, Len(bookings))
    /\ \E r \in DOMAIN rooms : rooms[r].status = "closed"
    /\ \E req \in DOMAIN requests : requests[req].status = "booked"

\* the professionals the matching of a request has to return
Eligible(req) ==
    {u \in Users : /\ users[u].role = "pro"
                   /\ users[u].is_active
                   /\ users[u].service_category = requests[req].category_id}

Occurrences(items, u) == Cardinality({k \in DOMAIN items : items[k].id = u})

PositionIn(order, u) == CHOOSE i \in DOMAIN order : order[i] = u

\* C21: for every request and every order of the store, the matching answers
\* 200 with every active professional of the request's category exactly
\* once and with nobody else; with no such professional the list is empty.
C21_MatchesAreEligiblePros ==
    \A req \in DOMAIN requests, order \in StoreOrders :
        LET res == get_matched_professionals(req, order)
        IN  /\ res.code = 200
            /\ \A u \in Users :
                   Occurrences(res.items, u) = IF u \in Eligible(req) THEN 1 ELSE 0

\* p2 has the category of the request and is left out because it has not
\* verified, while p1 is returned
C21_Witness ==
    \E req \in DOMAIN requests :
        /\ users["p2"].service_category = requests[req].category_id
        /\ ~users["p2"].is_active
        /\ Eligible(req) = {"p1"}
        /\ Len(get_matched_professionals(req, <<"c1", "p1", "p2">>).items) = 1

\* C22: every match score lies between 0 and 100 (in tenths: 0..1000), the
\* list is in non-increasing order of score, and of two candidates with the
\* same score the one the store returned first comes first.
C22_ScoresBoundedAndSorted ==
    \A req \in DOMAIN requests, order \in StoreOrders :
        LET items == get_matched_professionals(req, order).items
        IN  /\ \A k \in DOMAIN items :
                   0 <= items[k].match_score /\ items[k].match_score <= 1000
            /\ \A i, j \in DOMAIN items :
                   i < j => /\ items[i].match_score >= items[j].match_score
                            /\ items[i].match_score = items[j].match_score
                               => PositionIn(order, items[i].id) < PositionIn(order, items[j].id)

\* two candidates with slots tie on a positive score while p1 has a booking,
\* and the store returns p2 before p1
C22_Witness ==
    \E req \in DOMAIN requests :
        LET items == get_matched_professionals(req, <<"p2", "c1", "p1">>).items
        IN  /\ Len(items) = 2
            /\ items[1].id = "p2"
            /\ items[1].match_score = items[2].match_score
            /\ items[1].match_score > 0
            /\ avail_count("p1") > 0
            /\ bookings # <<>>

\* C23: the rating sub-score of a candidate with reviews is its average
\* rating divided by 5 times 100; that of a candidate without reviews is 50.
C23_RatingScoreOrDefault ==
    \A req \in DOMAIN requests, order \in StoreOrders :
        LET items == get_matched_professionals(req, order).items
        IN  \A k \in DOMAIN items :
                LET about == ReviewsAbout(items[k].id)
                    r == items[k].rating_score
                IN  IF about = {}
                    THEN r.num = 50 * r.den
                    ELSE r.num * 5 * Cardinality(about) = 100 * SumRatings(about) * r.den

\* p1 is returned with reviews of average 4 (sub-score 80) next to p2, who
\* has none (sub-score 50)
C23_Witness ==
    \E req \in DOMAIN requests :
        LET items == get_matched_professionals(req, <<"c1", "p1", "p2">>).items
        IN  /\ Len(items) = 2
            /\ Cardinality(ReviewsAbout("p1")) = 2
            /\ SumRatings(ReviewsAbout("p1")) = 8
            /\ ReviewsAbout("p2") = {}
            /\ \E k \in DOMAIN items : items[k].id = "p1" /\ items[k].rating_score = Frac(800, 10)
            /\ \E k \in DOMAIN items : items[k].id = "p2" /\ items[k].rating_score = Frac(50, 1)

\* C24: the availability sub-score of a candidate is 33 times the number of
\* its unbooked slots, at most 100, and it is 100 with three or more slots.
C24_ThreeSlotsFullScore ==
    \A req \in DOMAIN requests, order \in StoreOrders :
        LET items == get_matched_professionals(req, order).items
        IN  \A k \in DOMAIN items :
                LET n == avail_count(items[k].id)
                IN  /\ items[k].availability_score = Min(33 * n, 100)
                    /\ n >= 3 => items[k].availability_score = 100

====
